---- MODULE Spec2Model ----
(***************************************************************************)
(* Model of streamlit_app.py: a Streamlit script that loads a table of     *)
(* CMBS property observations (memoized per process), lets the user pick a *)
(* vintage and a deal, and charts the deal's value-weighted occupancy per  *)
(* reporting period against the vintage's 25/50/75 percentile bands.       *)
(*                                                                         *)
(* Representation.                                                         *)
(*  - A DataFrame is a sequence of row records; `index` is the pandas row  *)
(*    label (the position in the loaded table), which filters keep.        *)
(*  - A deal name is a sequence of one-character strings.                  *)
(*  - A date is <<month, day>>, month counted from an epoch, so that the   *)
(*    month before month m is m - 1.  NaT is the missing date.             *)
(*  - Occupancy is a float; it is held in units of 1/OccUnit, so that      *)
(*    x / 100 is exact for inputs with at most two decimals.  NaN is the   *)
(*    missing number.                                                      *)
(*  - A weighted mean is held as the exact pair num/den; a percentile is   *)
(*    held times 4 (the interpolation weights are quarters).               *)
(***************************************************************************)
EXTENDS Integers, Sequences, FiniteSets, TLC

\* ------------------------------------------------------------ bounds ----

\* Number of arbitrary rows that follow the fixed block of the remote table.
MaxExtra == 1

\* ------------------------------------------------------- value domains ---

\* 1.0 in occupancy units (a fraction f is held as f * OccUnit).
OccUnit == 10000

NaN == -1
NaT == <<0, 0>>
NoYear == 0
NoName == <<>>

Digits == {"0", "1", "2", "3", "4", "5", "6", "7", "8", "9"}

DigitVal(c) ==
  CASE c = "0" -> 0 [] c = "1" -> 1 [] c = "2" -> 2 [] c = "3" -> 3
    [] c = "4" -> 4 [] c = "5" -> 5 [] c = "6" -> 6 [] c = "7" -> 7
    [] c = "8" -> 8 [] c = "9" -> 9

DigitChar(d) ==
  CASE d = 0 -> "0" [] d = 1 -> "1" [] d = 2 -> "2" [] d = 3 -> "3"
    [] d = 4 -> "4" [] d = 5 -> "5" [] d = 6 -> "6" [] d = 7 -> "7"
    [] d = 8 -> "8" [] d = 9 -> "9"

\* Deal names of the modelled input.
NameA == <<"A", " ", "2", "0", "1", "8", "-", "1">>
NameB == <<"B", " ", "2", "0", "1", "9", "-", "2">>
NameC == <<"C", " ", "2", "0", "2", "0", "-", "3">>
\* A 2018 deal whose series label carries the digits of another year.
NameD == <<"D", " ", "2", "0", "1", "8", "-", "2", "0", "1", "9">>
\* A name in which no four-digit run follows a non-digit.
NameX == <<"2", "0", "2", "1", "-", "X">>

Names == {NameA, NameB, NameC, NameD, NameX}

\* Reporting dates: missing, mid February, the first of March, mid March.
Dates == {NaT, <<2, 15>>, <<3, 1>>, <<3, 15>>}

\* Raw occupancy: missing, 1.0 (the largest fraction), 100.0 (the largest
\* percentage); the fixed block adds 0.5 and 75.0.
Occs == {NaN, 10000, 1000000}

\* Appraised value: missing, or a whole number.
Values == {NaN, 0, 3}

Row(name, date, occ, value) ==
  [COMPANY_NAME |-> name, REPORTINGPERIODENDDATE |-> date,
   OCCUPANCY |-> occ, MOST_RECENT_VALUE |-> value]

CsvRows == {Row(n, d, o, v) : n \in Names, d \in Dates, o \in Occs, v \in Values}

\* The fixed block: three deals of three vintages, or only the first two.
Block3 == << Row(NameA, <<3, 15>>, 5000, 1),
             Row(NameB, <<3, 15>>, 750000, 3),
             Row(NameC, <<2, 15>>, 10000, 1) >>
Block2 == SubSeq(Block3, 1, 2)

RECURSIVE SeqsUpTo(_, _)
SeqsUpTo(S, n) ==
  IF n = 0 THEN {<<>>}
  ELSE LET shorter == SeqsUpTo(S, n - 1)
       IN shorter \cup {Append(s, x) : s \in {t \in shorter : Len(t) = n - 1}, x \in S}

CsvFiles == {b \o e : b \in {Block2, Block3}, e \in SeqsUpTo(CsvRows, MaxExtra)}

\* ------------------------------------------------------------ helpers ----

Range(s) == {s[i] : i \in DOMAIN s}

RECURSIVE SortedList(_)
SortedList(S) ==
  IF S = {} THEN <<>>
  ELSE LET m == CHOOSE x \in S : \A y \in S : x <= y
       IN <<m>> \o SortedList(S \ {m})

RECURSIVE Unique(_)
Unique(s) ==
  IF s = <<>> THEN <<>>
  ELSE LET rest == Unique(SubSeq(s, 1, Len(s) - 1))
           last == s[Len(s)]
       IN IF last \in Range(rest) THEN rest ELSE Append(rest, last)

RECURSIVE SortValues(_)
SortValues(s) ==
  IF s = <<>> THEN <<>>
  ELSE LET rest == SortValues(Tail(s))
           x == Head(s)
           k == Cardinality({i \in DOMAIN rest : rest[i] < x})
       IN SubSeq(rest, 1, k) \o <<x>> \o SubSeq(rest, k + 1, Len(rest))

RECURSIVE SumSeq(_)
SumSeq(s) == IF s = <<>> THEN 0 ELSE Head(s) + SumSeq(Tail(s))

\* ---------------------------------------------- line 31: unique_years ----

\* Variant: the pattern without its lookbehind, \d{4}(?=\D|$).
YearMatchesAnywhere(name) ==
  {i \in 1..(Len(name) - 3) :
      /\ \A k \in 0..3 : name[i + k] \in Digits
      /\ (i + 4 > Len(name) \/ name[i + 4] \notin Digits)}

\* Start positions of the matches of (?<=\D)\d{4}(?=\D|$) in a name: four
\* digits, a non-digit character before them, a non-digit or the end after.
YearMatches(name) ==
  {i \in 2..(Len(name) - 3) :
      /\ name[i - 1] \notin Digits
      /\ \A k \in 0..3 : name[i + k] \in Digits
      /\ (i + 4 > Len(name) \/ name[i + 4] \notin Digits)}

\* re.findall(...)[0] raises IndexError when the pattern matches nowhere.
HasYear(name) == YearMatches(name) # {}

\* int(re.findall(...)[0]): the leftmost match, read as a number.
VintageOf(name) ==
  LET i == CHOOSE j \in YearMatches(name) : \A k \in YearMatches(name) : j <= k
  IN 1000 * DigitVal(name[i]) + 100 * DigitVal(name[i + 1])
       + 10 * DigitVal(name[i + 2]) + DigitVal(name[i + 3])

CompanyNames(df) == Unique([i \in DOMAIN df |-> df[i].COMPANY_NAME])

UniqueYearsRaises(props) == \E n \in Range(CompanyNames(props)) : ~HasYear(n)

UniqueYears(props) ==
  SortedList({VintageOf(n) : n \in Range(CompanyNames(props))})

\* ------------------------------------------------- line 40: year_data ----

\* str(selected_year): decimal digits, no leading zeros.
RECURSIVE IntToStr(_)
IntToStr(n) ==
  IF n < 10 THEN <<DigitChar(n)>>
  ELSE Append(IntToStr(n \div 10), DigitChar(n % 10))

\* Series.str.contains(pat) for a pattern of digits: pat occurs somewhere.
Contains(name, pat) ==
  \E i \in 1..(Len(name) - Len(pat) + 1) : SubSeq(name, i, i + Len(pat) - 1) = pat

VintageFilter(props, year) ==
  SelectSeq(props, LAMBDA r : Contains(r.COMPANY_NAME, IntToStr(year)))

\* --------------------------------------------- lines 51-62: clean up ----

FillValue(v) == IF v = NaN THEN 0 ELSE v

\* Variant: the threshold written as 100, lambda x: x / 100 if x > 100 else x.
RescaleAboveHundred(x) == IF x # NaN /\ x > 100 * OccUnit THEN x \div 100 ELSE x

\* lambda x: x / 100 if x > 1 else x; NaN > 1 is False, so NaN passes through.
Rescale(x) == IF x # NaN /\ x > OccUnit THEN x \div 100 ELSE x

NormalizeOccupancy(x) == LET y == Rescale(x) IN IF y = NaN THEN 0 ELSE y

CleanUp(df) ==
  [i \in DOMAIN df |->
     [df[i] EXCEPT !.MOST_RECENT_VALUE = FillValue(@),
                   !.OCCUPANCY = NormalizeOccupancy(@)]]

\* Variant: the dropna of line 59 left out.
KeepMissingDates(df) == df

DropMissingDates(df) == SelectSeq(df, LAMBDA r : r.REPORTINGPERIODENDDATE # NaT)

\* ------------------------------------------- lines 65-68: bank_data ------

CompanyFilter(df, company) == SelectSeq(df, LAMBDA r : r.COMPANY_NAME = company)

\* ts - pd.offsets.MonthBegin(1): the latest first-of-month strictly before
\* ts; a date that is itself a first of the month rolls to the month before.
MinusMonthBegin(d) == IF d[2] = 1 THEN <<d[1] - 1, 1>> ELSE <<d[1], 1>>

ShiftDates(df) ==
  [i \in DOMAIN df |-> [df[i] EXCEPT !.REPORTINGPERIODENDDATE = MinusMonthBegin(@)]]

\* ------------------------------------------- lines 71-91: aggregation ----

GroupKeys(df) == {df[i].REPORTINGPERIODENDDATE : i \in DOMAIN df}

Group(df, key) == SelectSeq(df, LAMBDA r : r.REPORTINGPERIODENDDATE = key)

\* np.average(a, weights=w) raises ZeroDivisionError when sum(w) = 0.
WeightsSumToZero(g) == SumSeq([i \in DOMAIN g |-> g[i].MOST_RECENT_VALUE]) = 0

\* Variant: the weights left out, np.average(a).
AverageUnweighted(g) ==
  [num |-> SumSeq([i \in DOMAIN g |-> g[i].OCCUPANCY]), den |-> Len(g)]

\* np.average(a, weights=w) = sum(a * w) / sum(w), kept as num / den.
Average(g) ==
  [num |-> SumSeq([i \in DOMAIN g |-> g[i].OCCUPANCY * g[i].MOST_RECENT_VALUE]),
   den |-> SumSeq([i \in DOMAIN g |-> g[i].MOST_RECENT_VALUE])]

\* Variant: a mean that yields a value (NaN) for weights that sum to zero.
AverageNeverRaises(bank) == FALSE

AverageRaises(bank) == \E key \in GroupKeys(bank) : WeightsSumToZero(Group(bank, key))

WeightedOccupancy(bank) == [key \in GroupKeys(bank) |-> Average(Group(bank, key))]

\* np.percentile(a, q) with linear interpolation, q = 25 * k, times 4:
\* position (n - 1) * q / 100 = (n - 1) * k / 4 in the sorted values.
Percentile4(a, k) ==
  LET s == SortValues(a)
      pos4 == (Len(s) - 1) * k
      lo == pos4 \div 4 + 1
      fr == pos4 % 4
  IN IF fr = 0 THEN 4 * s[lo] ELSE 4 * s[lo] + fr * (s[lo + 1] - s[lo])

Bands(g) ==
  LET a == [i \in DOMAIN g |-> g[i].OCCUPANCY]
  IN [p25 |-> Percentile4(a, 1), p50 |-> Percentile4(a, 2), p75 |-> Percentile4(a, 3)]

Percentiles(year) == [key \in GroupKeys(year) |-> Bands(Group(year, key))]

\* ------------------------------------------------------------- state ----

VARIABLES
  remote,                   \* the CSV behind st.secrets["property_url"]
  cache,                    \* st.cache_data's memo of get_property_data: <<>> or <<table>>
  fetches,                  \* number of pd.read_csv calls made so far
  status,                   \* how the last script run ended ("idle": none yet)
  unique_years,             \* line 31, <<>> when the run did not get there
  selected_year,            \* first selector's value, NoYear when not rendered
  unique_companies,         \* line 44
  selected_company,         \* second selector's value, NoName when not rendered
  year_data,                \* as it enters the percentile aggregation
  bank_data,                \* as it enters the weighted-average aggregation
  bank_weighted_occupancy,  \* lines 72-79: period -> num / den
  percentiles               \* lines 84-91: period -> p25, p50, p75 (times 4)

vars == <<remote, cache, fetches, status, unique_years, selected_year,
          unique_companies, selected_company, year_data, bank_data,
          bank_weighted_occupancy, percentiles>>

\* pd.read_csv(url): the rows of the file under a RangeIndex.
ReadCsv(rows) ==
  [i \in DOMAIN rows |->
     [index |-> i, COMPANY_NAME |-> rows[i].COMPANY_NAME,
      REPORTINGPERIODENDDATE |-> rows[i].REPORTINGPERIODENDDATE,
      OCCUPANCY |-> rows[i].OCCUPANCY,
      MOST_RECENT_VALUE |-> rows[i].MOST_RECENT_VALUE]]

\* Variant: the function without its @st.cache_data decorator.
CacheNeverHit(memo) == FALSE

\* @st.cache_data: a memoized result is returned without running the body.
CacheHit(memo) == memo # <<>>

\* Variant: the clean-up done in place on the rows of the memoized table.
PropertiesWrittenBack(properties, cleaned) ==
  [i \in DOMAIN properties |->
     IF \E j \in DOMAIN cleaned : cleaned[j].index = i
     THEN cleaned[CHOOSE j \in DOMAIN cleaned : cleaned[j].index = i]
     ELSE properties[i]]

\* The loaded table after a run.  year_data and bank_data are .copy()s
\* (lines 40, 65), and the script assigns to no column of properties.
PropertiesAfterRun(properties, cleaned) == properties

\* What a run leaves when it has not got past line 31.
Nothing ==
  [unique_years |-> <<>>, selected_year |-> NoYear, unique_companies |-> <<>>,
   selected_company |-> NoName, year_data |-> <<>>, bank_data |-> <<>>,
   bank_weighted_occupancy |-> <<>>, percentiles |-> <<>>]

\* Lines 49-130 for the selections made: clean up, split off the deal,
\* aggregate, chart.  emptyOk is whether the installed pandas gets through
\* an aggregation over no rows (line 79 assigns two column names to what
\* groupby().apply() returned).
Selected(properties, years, year, companies, company, emptyOk) ==
  LET year1 == DropMissingDates(CleanUp(VintageFilter(properties, year)))
      bank  == ShiftDates(CompanyFilter(year1, company))
      year2 == ShiftDates(year1)
      sofar == [unique_years |-> years, selected_year |-> year,
                unique_companies |-> companies, selected_company |-> company,
                year_data |-> year2, bank_data |-> bank,
                bank_weighted_occupancy |-> <<>>, percentiles |-> <<>>]
  IN
  IF AverageRaises(bank)
  THEN [status |-> "ZeroDivisionError"] @@ sofar
  ELSE IF bank = <<>> /\ ~emptyOk
  THEN [status |-> "ValueError"] @@ sofar
  ELSE [status |-> "rendered"] @@
       [sofar EXCEPT !.bank_weighted_occupancy = WeightedOccupancy(bank),
                     !.percentiles = Percentiles(year2)]

\* Lines 30-130 on the loaded table.  wYear and wCompany are the values the
\* session holds for the two selectors (NoYear, NoName: none, the default
\* index applies); oldCompanies are the options the second selector had
\* when wCompany was chosen: a selector with other options is a new widget.
Script(properties, wYear, wCompany, oldCompanies, emptyOk) ==
  IF UniqueYearsRaises(properties)
  THEN [status |-> "IndexError"] @@ Nothing
  ELSE
  LET years == UniqueYears(properties) IN
  IF Len(years) < 3
  THEN [status |-> "StreamlitAPIException"] @@ [Nothing EXCEPT !.unique_years = years]
  ELSE
  LET year      == IF wYear = NoYear THEN years[3] ELSE wYear
      companies == CompanyNames(VintageFilter(properties, year))
      company   == IF wCompany # NoName /\ companies = oldCompanies
                     THEN wCompany ELSE companies[1]
  IN Selected(properties, years, year, companies, company, emptyOk)

\* ----------------------------------------------------------- actions ----

Init ==
  /\ remote \in CsvFiles
  /\ cache = <<>>
  /\ fetches = 0
  /\ status = "idle"
  /\ unique_years = <<>>
  /\ selected_year = NoYear
  /\ unique_companies = <<>>
  /\ selected_company = NoName
  /\ year_data = <<>>
  /\ bank_data = <<>>
  /\ bank_weighted_occupancy = <<>>
  /\ percentiles = <<>>

\* One execution of the whole script, lines 19-135.  Whether an aggregation
\* over no rows gets through is the installed pandas' doing: both outcomes.
Run(wYear, wCompany) ==
  \E hit \in {CacheHit(cache)} :
  \E properties \in {IF hit THEN cache[1] ELSE ReadCsv(remote)} :
  \E through \in {Script(properties, wYear, wCompany, unique_companies, TRUE)} :
  \E out \in {through} \cup
             (IF through.status = "rendered" /\ through.bank_data = <<>>
              THEN {Script(properties, wYear, wCompany, unique_companies, FALSE)}
              ELSE {}) :
     LET cleaned == IF out.selected_year = NoYear THEN <<>>
                    ELSE CleanUp(VintageFilter(properties, out.selected_year))
     IN
     /\ fetches' = IF hit THEN fetches ELSE fetches + 1
     /\ cache' = <<PropertiesAfterRun(properties, cleaned)>>
     /\ status' = out.status
     /\ unique_years' = out.unique_years
     /\ selected_year' = out.selected_year
     /\ unique_companies' = out.unique_companies
     /\ selected_company' = out.selected_company
     /\ year_data' = out.year_data
     /\ bank_data' = out.bank_data
     /\ bank_weighted_occupancy' = out.bank_weighted_occupancy
     /\ percentiles' = out.percentiles
     /\ UNCHANGED remote

\* The page is opened: the first execution, both selectors at their defaults.
Start ==
  /\ status = "idle"
  /\ Run(NoYear, NoName)

\* The first execution when pd.read_csv raises: nothing is memoized or shown.
FetchFails ==
  /\ status = "idle"
  /\ ~CacheHit(cache)
  /\ fetches' = fetches + 1
  /\ status' = "FetchError"
  /\ UNCHANGED <<remote, cache, unique_years, selected_year, unique_companies,
                 selected_company, year_data, bank_data,
                 bank_weighted_occupancy, percentiles>>

\* The user picks another vintage in the first selector: the script reruns.
SelectVintage ==
  /\ selected_year # NoYear
  /\ \E y \in Range(unique_years) \ {selected_year} : Run(y, selected_company)

\* The user picks another deal in the second selector: the script reruns.
SelectCompany ==
  /\ selected_company # NoName
  /\ \E c \in Range(unique_companies) \ {selected_company} : Run(selected_year, c)

Next == Start \/ FetchFails \/ SelectVintage \/ SelectCompany

Spec == Init /\ [][Next]_vars

\* ===================================================== properties =======
\* The claims are stated against the file as fetched (remote); a row of a
\* data frame is traced to its source row by its index label.

RECURSIVE SumFn(_)
SumFn(f) ==
  IF DOMAIN f = {} THEN 0
  ELSE LET i == CHOOSE j \in DOMAIN f : TRUE
       IN f[i] + SumFn([j \in DOMAIN f \ {i} |-> f[j]])

\* Occupancy as a fraction of 1: a percentage is divided by 100, missing is 0.
AsFraction(x) == IF x = NaN THEN 0 ELSE IF x > OccUnit THEN x \div 100 ELSE x

\* Appraised value with missing counted as zero.
AsWeight(v) == IF v = NaN THEN 0 ELSE v

Dated == {i \in DOMAIN remote : remote[i].REPORTINGPERIODENDDATE # NaT}

\* The period the chart puts source row i in.
PeriodOfRow(i) == MinusMonthBegin(remote[i].REPORTINGPERIODENDDATE)

Entering == Range(year_data) \cup Range(bank_data)

\* ---- C1 ----
\* C1: every row that enters the weighted-average aggregation (bank_data) or
\* the percentile aggregation (year_data) has an occupancy within [0, 1],
\* whatever the raw value was (a fraction, a percentage or missing).
C1_OccupancyNormalized ==
  \A r \in Entering : 0 <= r.OCCUPANCY /\ r.OCCUPANCY <= OccUnit

\* A chart was rendered from rows that held a percentage and a missing value.
C1_Witness ==
  /\ status = "rendered"
  /\ \E r \in Range(bank_data) : remote[r.index].OCCUPANCY > OccUnit
  /\ \E r \in Range(year_data) : remote[r.index].OCCUPANCY = NaN

\* ---- C2 ----
DealRows == {i \in Dated : remote[i].COMPANY_NAME = selected_company}

DealPeriods == {PeriodOfRow(i) : i \in DealRows}

DealRowsIn(p) == {i \in DealRows : PeriodOfRow(i) = p}

TotalValue(p) == SumFn([i \in DealRowsIn(p) |-> AsWeight(remote[i].MOST_RECENT_VALUE)])

TotalOccupiedValue(p) ==
  SumFn([i \in DealRowsIn(p) |->
           AsFraction(remote[i].OCCUPANCY) * AsWeight(remote[i].MOST_RECENT_VALUE)])

\* C2: in a rendered chart the deal's line has one point per reporting period
\* of the selected deal, and the point of period p is
\* sum(occupancy_i * value_i) / sum(value_i) over exactly the dated rows of
\* that deal in p, occupancy normalized and a missing value counted as zero.
C2_WeightedMean ==
  status = "rendered" =>
    /\ DOMAIN bank_weighted_occupancy = DealPeriods
    /\ \A p \in DealPeriods :
         /\ bank_weighted_occupancy[p].den # 0
         /\ bank_weighted_occupancy[p].num * TotalValue(p)
              = TotalOccupiedValue(p) * bank_weighted_occupancy[p].den

\* A rendered period averages two rows of unequal occupancy and unequal weight.
C2_Witness ==
  /\ status = "rendered"
  /\ \E p \in DealPeriods : \E i, j \in DealRowsIn(p) :
       /\ AsWeight(remote[i].MOST_RECENT_VALUE) > AsWeight(remote[j].MOST_RECENT_VALUE)
       /\ AsWeight(remote[j].MOST_RECENT_VALUE) > 0
       /\ AsFraction(remote[i].OCCUPANCY) # AsFraction(remote[j].OCCUPANCY)

\* ---- C3 ----
\* Dated rows of the deals whose vintage (the year in the name) is selected.
VintageRows ==
  {i \in Dated : HasYear(remote[i].COMPANY_NAME)
                   /\ VintageOf(remote[i].COMPANY_NAME) = selected_year}

VintagePeriods == {PeriodOfRow(i) : i \in VintageRows}

VintageOccupancies(p) ==
  LET rows == SortedList({i \in VintageRows : PeriodOfRow(i) = p})
  IN [k \in DOMAIN rows |-> AsFraction(remote[rows[k]].OCCUPANCY)]

\* C3: in a rendered chart the bands of period p are the 25th, 50th and 75th
\* linear-interpolation percentiles of the normalized occupancy over all dated
\* rows of all deals of the selected vintage in p, and p25 <= p50 <= p75.
C3_PercentileBands ==
  status = "rendered" =>
    /\ DOMAIN percentiles = VintagePeriods
    /\ \A p \in VintagePeriods :
         /\ percentiles[p].p25 = Percentile4(VintageOccupancies(p), 1)
         /\ percentiles[p].p50 = Percentile4(VintageOccupancies(p), 2)
         /\ percentiles[p].p75 = Percentile4(VintageOccupancies(p), 3)
         /\ percentiles[p].p25 <= percentiles[p].p50
         /\ percentiles[p].p50 <= percentiles[p].p75

\* ---- C4 ----
\* C4: once the vintage filter has run, the retained rows (those of the deals
\* offered in the second selector) are exactly the rows whose name's vintage
\* is the selected one.
C4_VintageFilterExact ==
  selected_company # NoName =>
    \A i \in DOMAIN remote :
      (remote[i].COMPANY_NAME \in Range(unique_companies))
        <=> (VintageOf(remote[i].COMPANY_NAME) = selected_year)

\* ---- C5 ----
\* C5: no row whose reporting date is missing enters either aggregation, and
\* no point of the line or of the bands is keyed by a missing date.
C5_MissingDateExcluded ==
  /\ \A r \in Entering : remote[r.index].REPORTINGPERIODENDDATE # NaT
  /\ \A p \in DOMAIN bank_weighted_occupancy \cup DOMAIN percentiles :
       \E i \in Dated : PeriodOfRow(i) = p

\* A chart was rendered for a deal one of whose rows has no reporting date.
C5_Witness ==
  /\ status = "rendered"
  /\ bank_data # <<>>
  /\ \E i \in DOMAIN remote :
       /\ remote[i].COMPANY_NAME = selected_company
       /\ remote[i].REPORTINGPERIODENDDATE = NaT

\* ---- C6 ----
\* C6: the CSV is fetched at most once, and only by the first execution: an
\* execution triggered by a widget change leaves the fetch count as it was.
C6_FetchedOnce ==
  [][fetches' <= 1 /\ (status # "idle" => fetches' = fetches)]_vars

\* A rerun after a change of vintage has rendered, with one fetch in all.
C6_Witness ==
  /\ status = "rendered"
  /\ selected_year # unique_years[3]
  /\ fetches = 1

\* ---- C7 ----
\* The chart data the script computes from a table for given selections.
ChartOf(table, year, company) ==
  LET out == Selected(table, <<>>, year, <<>>, company, TRUE)
  IN <<out.bank_weighted_occupancy, out.percentiles>>

\* C7: a run leaves the loaded table as it was fetched, and the chart data of
\* a rendered run is what the script computes from that table and the current
\* vintage and deal selections alone.
C7_NothingCarried ==
  /\ [][cache # <<>> => cache' = cache]_vars
  /\ [](cache # <<>> => cache = <<ReadCsv(remote)>>)
  /\ [](status = "rendered" =>
          <<bank_weighted_occupancy, percentiles>>
            = ChartOf(ReadCsv(remote), selected_year, selected_company))

\* A second interaction has rendered a vintage whose rows needed cleaning.
C7_Witness ==
  /\ status = "rendered"
  /\ selected_year # unique_years[3]
  /\ selected_company # unique_companies[1]
  /\ \E r \in Range(year_data) :
       remote[r.index].MOST_RECENT_VALUE = NaN \/ remote[r.index].OCCUPANCY = NaN

\* ---- C8 ----
\* The vintage pattern (?<=\D)\d{4}(?=\D|$) matches name at position i.
PatternAt(name, i) ==
  /\ i > 1 /\ i + 3 <= Len(name)
  /\ name[i - 1] \notin Digits
  /\ \A k \in i..(i + 3) : name[k] \in Digits
  /\ (i + 3 = Len(name) \/ name[i + 4] \notin Digits)

SomeNameWithoutVintage ==
  \E r \in DOMAIN remote :
    \A i \in DOMAIN remote[r].COMPANY_NAME : ~PatternAt(remote[r].COMPANY_NAME, i)

\* C8: when some deal name of the table has no match of the vintage pattern,
\* every run ends in an unhandled error with no vintage list, no selector and
\* no chart data.
C8_NoVintageIsFatal ==
  (SomeNameWithoutVintage /\ status # "idle") =>
    /\ status \in {"IndexError", "FetchError"}
    /\ unique_years = <<>> /\ unique_companies = <<>>
    /\ selected_year = NoYear /\ selected_company = NoName
    /\ bank_weighted_occupancy = <<>> /\ percentiles = <<>>

\* The table was loaded and the extraction of the vintages raised.
C8_Witness == status = "IndexError" /\ cache # <<>> /\ SomeNameWithoutVintage

\* ---- C9 ----
\* C9: every row that enters an aggregation is keyed by the first day of the
\* calendar month that contains its reporting date.
C9_CalendarMonth ==
  \A r \in Entering :
    r.REPORTINGPERIODENDDATE = <<remote[r.index].REPORTINGPERIODENDDATE[1], 1>>

\* ---- C10 ----
\* C10: a rendered chart has a strictly positive total appraised value in
\* every reporting period of the selected deal; and when some period of the
\* selected deal has a total of zero, the run has ended in ZeroDivisionError.
C10_PositiveTotalOrAbort ==
  /\ status = "rendered" => \A p \in DealPeriods : TotalValue(p) > 0
  /\ (selected_company # NoName /\ \E p \in DealPeriods : TotalValue(p) = 0)
        => status = "ZeroDivisionError"

\* A run was aborted over a period whose only weights were missing values.
C10_Witness ==
  /\ status = "ZeroDivisionError"
  /\ \E p \in DealPeriods :
       \A i \in DealRowsIn(p) : remote[i].MOST_RECENT_VALUE = NaN

====
